---- MODULE Spec2Model ----
(***************************************************************************)
(* Model of src/libvirt_rpc_codec.rs: LibvirtCodec::decode, the libvirt    *)
(* RPC frame decoder, driven by a transport that appends the bytes of a    *)
(* wire to an EasyBuf and calls decode on it.                              *)
(*                                                                         *)
(* Representation.  A byte is a number in 0..255 and a buffer a sequence   *)
(* of bytes.  A u32 is the pair <<hi, lo>> of its 16-bit halves and a u64  *)
(* the 4-tuple of its 16-bit limbs, most significant first (the values     *)
(* 2^31..2^64-1 do not fit TLC's 32-bit integers); an i32 is an integer.  *)
(* Option<T> is a sequence of at most one element.  A std::io::Error is    *)
(* the pair <<ErrorKind, message>>.                                        *)
(***************************************************************************)
EXTENDS Integers, Sequences, FiniteSets, TLC

VARIABLES
    wire,    \* bytes the peer has sent that the transport has not yet appended
    buf,     \* the EasyBuf handed to decode
    result,  \* what the last decode call returned
    prev,    \* contents of buf when the last decode call started
    frame,   \* Option: the bytes the last decode call handed to its XdrReader
    op,      \* the last operation: "init", "arrive", "encode" or "decode"
    msg,     \* Option: the Packet handed to encode (round-trip runs)
    stream,  \* every byte the peer sends (runs that record the outcomes)
    outs,    \* the results other than Ok(None) the caller has had so far
    hist     \* the decode calls made since the last arrival (counted runs)

\* What only some of the specifications below use.
aux == <<msg, stream, outs, hist>>

vars == <<wire, buf, result, prev, frame, op, msg, stream, outs, hist>>

----------------------------------------------------------------------------
(* Bounds of the model *)

\* Largest number of bytes one arrival appends to the buffer.
MaxChunk == 4
\* Longest wire made of arbitrary bytes (no frame structure).
MaxRawLen == 4
\* Largest number of frames on a structured wire.
MaxFrames == 2
\* Largest number of decode calls in a row that a counted run records.
MaxCalls == 3

----------------------------------------------------------------------------
(* Helpers on sequences *)

Min(a, b) == IF a < b THEN a ELSE b

\* The bytes of s after its first n.
Drop(s, n) == SubSeq(s, n + 1, Len(s))

\* The first n bytes of s.
Take(s, n) == SubSeq(s, 1, n)

IsPrefix(p, s) == Len(p) <= Len(s) /\ Take(s, Len(p)) = p

----------------------------------------------------------------------------
(* XDR primitives: XdrReader::unpack and XdrWriter::pack (big-endian) *)

\* io::Error of a read past the end of the reader's bytes.
XdrEof == <<"UnexpectedEof", "failed to fill whole buffer">>

\* reader.unpack::<u32>() on a reader whose unread bytes are r.
unpack_u32(r) ==
    IF Len(r) < 4
    THEN [ok |-> FALSE, val |-> <<0, 0>>, rest |-> r]
    ELSE [ok |-> TRUE,
          val |-> <<r[1] * 256 + r[2], r[3] * 256 + r[4]>>,
          rest |-> Drop(r, 4)]

\* reader.unpack::<i32>(): two's complement.
unpack_i32(r) ==
    IF Len(r) < 4
    THEN [ok |-> FALSE, val |-> 0, rest |-> r]
    ELSE [ok |-> TRUE,
          val |-> (IF r[1] >= 128 THEN r[1] - 256 ELSE r[1]) * 16777216
                  + r[2] * 65536 + r[3] * 256 + r[4],
          rest |-> Drop(r, 4)]

\* reader.unpack::<u64>().
unpack_u64(r) ==
    IF Len(r) < 8
    THEN [ok |-> FALSE, val |-> <<0, 0, 0, 0>>, rest |-> r]
    ELSE [ok |-> TRUE,
          val |-> <<r[1] * 256 + r[2], r[3] * 256 + r[4],
                    r[5] * 256 + r[6], r[7] * 256 + r[8]>>,
          rest |-> Drop(r, 8)]

\* wr.pack(x as u32)
pack_u32(u) == <<u[1] \div 256, u[1] % 256, u[2] \div 256, u[2] % 256>>

\* wr.pack(x as i32)
pack_i32(i) ==
    <<(i \div 16777216) % 256, (i \div 65536) % 256, (i \div 256) % 256, i % 256>>

\* wr.pack(x as u64)
pack_u64(v) ==
    <<v[1] \div 256, v[1] % 256, v[2] \div 256, v[2] % 256,
      v[3] \div 256, v[3] % 256, v[4] \div 256, v[4] % 256>>

----------------------------------------------------------------------------
(* Protocol constants *)

\* 0x20008086
LIBVIRT_PROGRAM == <<8192, 32902>>
LIBVIRT_PROTO_VERSION == <<0, 1>>

----------------------------------------------------------------------------
(* Results of decode *)

OkNone == [tag |-> "Ok", packet |-> <<>>, err |-> <<>>]
OkSome(p) == [tag |-> "Ok", packet |-> <<p>>, err |-> <<>>]
Err(e) == [tag |-> "Err", packet |-> <<>>, err |-> e]
\* The thread panicked: a buffer operation's precondition did not hold.
Panic == [tag |-> "Panic", packet |-> <<>>, err |-> <<>>]

\* The errors decode makes itself.
LengthError == <<"Other", "error unpacking length">>
TooShortError ==
    <<"InvalidData", "too short buffer to be an rpc call; must have header + length">>
InvalidProgramError == <<"InvalidData", "Invalid program; not recognized as libvirt">>
TodoError == <<"Other", "TODO">>

\* impl From<xdr::Error> for Error, then From<Error> for std::io::Error.
FromXdrError(e) == e

----------------------------------------------------------------------------
(* parse_header *)

Header(program, version, procedure, type_, serial, status) ==
    [program |-> program, version |-> version, procedure |-> procedure,
     type_ |-> type_, serial |-> serial, status |-> status]

\* Mutant: the procedure and type_ fields read in the other order.
parse_header_swapped(reader) ==
    LET f1 == unpack_u32(reader)
        f2 == unpack_u32(f1.rest)
        f3 == unpack_i32(f2.rest)
        f4 == unpack_i32(f3.rest)
        f5 == unpack_u32(f4.rest)
        f6 == unpack_i32(f5.rest)
    IN  IF f1.ok /\ f2.ok /\ f3.ok /\ f4.ok /\ f5.ok /\ f6.ok
        THEN [ok |-> TRUE,
              val |-> Header(f1.val, f2.val, f4.val, f3.val, f5.val, f6.val),
              err |-> <<>>, rest |-> f6.rest]
        ELSE [ok |-> FALSE,
              val |-> Header(<<0, 0>>, <<0, 0>>, 0, 0, <<0, 0>>, 0),
              err |-> FromXdrError(XdrEof), rest |-> reader]

parse_header(reader) ==
    LET f1 == unpack_u32(reader)
        f2 == unpack_u32(f1.rest)
        f3 == unpack_i32(f2.rest)
        f4 == unpack_i32(f3.rest)
        f5 == unpack_u32(f4.rest)
        f6 == unpack_i32(f5.rest)
    IN  IF f1.ok /\ f2.ok /\ f3.ok /\ f4.ok /\ f5.ok /\ f6.ok
        THEN [ok |-> TRUE,
              val |-> Header(f1.val, f2.val, f3.val, f4.val, f5.val, f6.val),
              err |-> <<>>, rest |-> f6.rest]
        ELSE [ok |-> FALSE,
              val |-> Header(<<0, 0>>, <<0, 0>>, 0, 0, <<0, 0>>, 0),
              err |-> FromXdrError(XdrEof), rest |-> reader]

----------------------------------------------------------------------------
(* parse_call_body *)

XdrU64(v) == [t |-> "U64", v |-> v]
PayloadCall(params) == [variant |-> "Call", params |-> params]
NoPayload == PayloadCall(<<>>)

\* Mutant: the program and version are not looked at.
parse_call_body_unchecked(reader, header) ==
    IF header.procedure = 4
    THEN LET v == unpack_u64(reader)
         IN  IF v.ok
             THEN [ok |-> TRUE, val |-> PayloadCall(<<XdrU64(v.val)>>), err |-> <<>>]
             ELSE [ok |-> FALSE, val |-> NoPayload, err |-> FromXdrError(XdrEof)]
    ELSE [ok |-> TRUE, val |-> PayloadCall(<<>>), err |-> <<>>]

parse_call_body(reader, header) ==
    IF header.program # LIBVIRT_PROGRAM \/ header.version # LIBVIRT_PROTO_VERSION
    THEN [ok |-> FALSE, val |-> NoPayload, err |-> InvalidProgramError]
    ELSE IF header.procedure = 4
    THEN LET v == unpack_u64(reader)
         IN  IF v.ok
             THEN [ok |-> TRUE, val |-> PayloadCall(<<XdrU64(v.val)>>), err |-> <<>>]
             ELSE [ok |-> FALSE, val |-> NoPayload, err |-> FromXdrError(XdrEof)]
    ELSE [ok |-> TRUE, val |-> PayloadCall(<<>>), err |-> <<>>]

\* Mutant: the program and version validated before the match on type_.
parse_body_check_first(reader, header) ==
    IF header.program # LIBVIRT_PROGRAM \/ header.version # LIBVIRT_PROTO_VERSION
    THEN [ok |-> FALSE, val |-> NoPayload, err |-> InvalidProgramError]
    ELSE IF header.type_ = 0
    THEN parse_call_body(reader, header)
    ELSE [ok |-> FALSE, val |-> NoPayload, err |-> TodoError]

\* Mutant: every message type is parsed as a call.
parse_body_always_call(reader, header) == parse_call_body(reader, header)

\* match header.type_ { 0 => parse_call_body(..)?, _ => Err("TODO")? }
parse_body(reader, header) ==
    IF header.type_ = 0
    THEN parse_call_body(reader, header)
    ELSE [ok |-> FALSE, val |-> NoPayload, err |-> TodoError]

----------------------------------------------------------------------------
(* EasyBuf operations; each panics when its index is past the end *)

\* &buf.as_slice()[0..4]
slice_0_4(b) ==
    IF Len(b) < 4 THEN [ok |-> FALSE, val |-> <<>>]
    ELSE [ok |-> TRUE, val |-> Take(b, 4)]

\* buf.drain_to(at): returns the first at bytes, leaves the others in buf.
drain_to(b, at) ==
    IF at > Len(b) THEN [ok |-> FALSE, head |-> <<>>, rest |-> b]
    ELSE [ok |-> TRUE, head |-> Take(b, at), rest |-> Drop(b, at)]

\* remaining_bytes.split_off(at): returns the bytes from index at on.
split_off(b, at) ==
    IF at > Len(b) THEN [ok |-> FALSE, val |-> <<>>]
    ELSE [ok |-> TRUE, val |-> Drop(b, at)]

----------------------------------------------------------------------------
(* LibvirtCodec::decode *)

Packet(len, header, body) == [len |-> len, header |-> header, body |-> body]

\* What a call leaves: its return value, the buffer, the reader's bytes.
Ret(r, b, f) == [result |-> r, buf |-> b, frame |-> f]

\* Mutant: three bytes taken to be enough for the length.
LengthMissing_3(b) == Len(b) < 3

\* buf.len() < 4
LengthMissing(b) == Len(b) < 4

\* Mutant: the wait ends four bytes before the declared length is buffered.
NeedMoreData_minus4(b, len) == len[1] > 0 \/ Len(b) + 4 < len[2]

\* Mutant: the prefix counted on top of the declared length.
NeedMoreData_plus4(b, len) == len[1] > 0 \/ Len(b) < 4 + len[2]

\* buf.len() < len as usize
NeedMoreData(b, len) == len[1] > 0 \/ Len(b) < len[2]

\* Mutant: the header counted without the length word.
HeaderMissing_24(len) == len[1] = 0 /\ len[2] < 6 * 4

\* Mutant: a zero length let through.
HeaderMissing_nonzero(len) == len[1] = 0 /\ 0 < len[2] /\ len[2] < 7 * 4

\* len < 7 * 4
HeaderMissing(len) == len[1] = 0 /\ len[2] < 7 * 4

\* len as usize
as_usize(len) == len[1] * 65536 + len[2]

\* Mutant: the prefix drained on top of the declared length.
take_frame_plus4(b, len) == drain_to(b, Min(as_usize(len) + 4, Len(b)))

\* Mutant: the frame copied out of the buffer instead of drained.
take_frame_copy(b, len) ==
    LET d == drain_to(b, as_usize(len))
    IN  [ok |-> d.ok, head |-> d.head, rest |-> b]

\* Mutant: the reader is given the whole buffer, not the drained frame.
take_frame_unbounded(b, len) ==
    LET d == drain_to(b, as_usize(len))
    IN  [ok |-> d.ok, head |-> b, rest |-> d.rest]

\* Mutant: only the prefix and the header are drained, the body is left.
take_frame_header_only(b, len) == drain_to(b, 7 * 4)

\* buf.drain_to(len as usize)
take_frame(b, len) == drain_to(b, as_usize(len))

\* remaining_bytes.split_off(4): skip the length
skip_length(d) == split_off(d, 4)

\* Mutant: the packet's len made to count the bytes after the prefix.
decode_frame_len_minus4(b, len) ==
    LET drained == take_frame(b, len)
        remaining == skip_length(drained.head)
        header == parse_header(remaining.val)
        body == parse_body(header.rest, header.val)
    IN  IF ~drained.ok THEN Ret(Panic, b, <<>>)
        ELSE IF ~remaining.ok THEN Ret(Panic, drained.rest, <<>>)
        ELSE IF ~header.ok THEN Ret(Err(header.err), drained.rest, <<remaining.val>>)
        ELSE IF ~body.ok THEN Ret(Err(body.err), drained.rest, <<remaining.val>>)
        ELSE Ret(OkSome(Packet(<<len[1], len[2] - 4>>, header.val, body.val)),
                 drained.rest, <<remaining.val>>)

\* From the drain on: the frame is taken, then parsed.
decode_frame(b, len) ==
    LET drained == take_frame(b, len)
        remaining == skip_length(drained.head)
        header == parse_header(remaining.val)
        body == parse_body(header.rest, header.val)
    IN  IF ~drained.ok THEN Ret(Panic, b, <<>>)
        ELSE IF ~remaining.ok THEN Ret(Panic, drained.rest, <<>>)
        ELSE IF ~header.ok THEN Ret(Err(header.err), drained.rest, <<remaining.val>>)
        ELSE IF ~body.ok THEN Ret(Err(body.err), drained.rest, <<remaining.val>>)
        ELSE Ret(OkSome(Packet(len, header.val, body.val)),
                 drained.rest, <<remaining.val>>)

\* Mutant: the length prefix is consumed while the body is awaited.
decode_eats_prefix(b) ==
    IF LengthMissing(b) THEN Ret(OkNone, b, <<>>)
    ELSE LET len_data == slice_0_4(b)
             len == unpack_u32(len_data.val)
         IN  IF ~len_data.ok THEN Ret(Panic, b, <<>>)
             ELSE IF ~len.ok THEN Ret(Err(LengthError), b, <<>>)
             ELSE IF NeedMoreData(b, len.val) THEN Ret(OkNone, Drop(b, 4), <<>>)
             ELSE IF HeaderMissing(len.val) THEN Ret(Err(TooShortError), b, <<>>)
             ELSE decode_frame(b, len.val)

decode(b) ==
    IF LengthMissing(b) THEN Ret(OkNone, b, <<>>)
    ELSE LET len_data == slice_0_4(b)
             len == unpack_u32(len_data.val)
         IN  IF ~len_data.ok THEN Ret(Panic, b, <<>>)
             ELSE IF ~len.ok THEN Ret(Err(LengthError), b, <<>>)
             ELSE IF NeedMoreData(b, len.val) THEN Ret(OkNone, b, <<>>)
             ELSE IF HeaderMissing(len.val) THEN Ret(Err(TooShortError), b, <<>>)
             ELSE decode_frame(b, len.val)

----------------------------------------------------------------------------
(* LibvirtCodec::encode *)

\* fn encode(&mut self, msg: Packet, buf: &mut Vec<u8>) { Ok(()) }: what the
\* call returns and what it leaves in buf.
encode(m, out) == [result |-> "Ok(())", buf |-> out]

----------------------------------------------------------------------------
(* The wires the peer may send *)

\* The frame tests::decode_version_call writes, with its values as parameters.
FrameBytes(len, program, version, procedure, type_, serial, status, body) ==
    pack_u32(len) \o pack_u32(program) \o pack_u32(version) \o pack_i32(procedure)
    \o pack_i32(type_) \o pack_u32(serial) \o pack_i32(status) \o body

U32Max == <<65535, 65535>>
U64One == <<0, 0, 0, 1>>
U64Big == <<65535, 0, 32768, 258>>

LenSamples ==
    { <<0, 0>>, <<0, 1>>, <<0, 4>>, <<0, 8>>, <<0, 23>>, <<0, 24>>, <<0, 27>>,
      <<0, 28>>, <<0, 32>>, <<0, 35>>, <<0, 36>>, <<0, 40>>, <<1, 36>>, U32Max }
ProgramSamples == { LIBVIRT_PROGRAM, <<8192, 32903>> }
VersionSamples == { LIBVIRT_PROTO_VERSION, <<0, 2>> }
ProcedureSamples == { 4, 1, -1 }
TypeSamples == { 0, 1, -1 }
SerialSamples == { <<0, 1>>, <<0, 0>>, U32Max }
StatusSamples == { 0, 1, -1 }
U64Samples == { U64One, U64Big }
RawBytes == { 0, 4, 10, 255 }

\* The version-query call of the test, for a serial, a status and a value.
VersionCall(serial, status, v) ==
    FrameBytes(<<0, 36>>, LIBVIRT_PROGRAM, LIBVIRT_PROTO_VERSION, 4, 0,
               serial, status, pack_u64(v))

FirstFrames ==
    { FrameBytes(l, LIBVIRT_PROGRAM, LIBVIRT_PROTO_VERSION, 4, 0, <<0, 1>>, 0,
                 pack_u64(U64One)) : l \in LenSamples }
    \cup
    { FrameBytes(<<0, 36>>, h[1], h[2], h[3], h[4], <<0, 1>>, 0, pack_u64(U64One)) :
        h \in ProgramSamples \X VersionSamples \X ProcedureSamples \X TypeSamples }
    \cup
    { VersionCall(x[1], x[2], x[3]) :
        x \in SerialSamples \X StatusSamples \X U64Samples }

NextFrames == { VersionCall(<<0, 2>>, 0, U64Big), <<0, 0, 0, 4>> }

RECURSIVE FrameWires(_)
FrameWires(n) ==
    IF n <= 1 THEN FirstFrames
    ELSE LET w == FrameWires(n - 1)
         IN  w \cup { x \o y : x \in w, y \in NextFrames }

RECURSIVE RawWires(_)
RawWires(n) ==
    IF n = 0 THEN { <<>> }
    ELSE LET w == RawWires(n - 1)
         IN  w \cup { Append(x, y) : x \in w, y \in RawBytes }

Wires == FrameWires(MaxFrames) \cup RawWires(MaxRawLen)

----------------------------------------------------------------------------
(* The state machine *)

Init ==
    /\ wire \in Wires
    /\ buf = <<>>
    /\ result = OkNone
    /\ prev = <<>>
    /\ frame = <<>>
    /\ op = "init"
    /\ msg = <<>>
    /\ stream = <<>>
    /\ outs = <<>>
    /\ hist = <<>>

\* The transport reads k more bytes into the buffer.
Arrive(k) ==
    /\ k <= Len(wire)
    /\ buf' = buf \o Take(wire, k)
    /\ wire' = Drop(wire, k)
    /\ result' = OkNone
    /\ prev' = <<>>
    /\ frame' = <<>>
    /\ op' = "arrive"

\* The transport calls codec.decode(&mut buf).
Decode ==
    LET r == decode(buf)
    IN  /\ result' = r.result
        /\ buf' = r.buf
        /\ frame' = r.frame
        /\ prev' = buf
        /\ op' = "decode"
        /\ UNCHANGED wire

Next ==
    \/ \E k \in 1..MaxChunk : Arrive(k) /\ UNCHANGED aux
    \/ Decode /\ UNCHANGED aux

Spec == Init /\ [][Next]_vars

----------------------------------------------------------------------------
(* Counted runs: the same machine, recording the calls made in a row *)

CallRecord(before, r) == [before |-> before, result |-> r.result, after |-> r.buf]

ArriveCounted(k) ==
    /\ Arrive(k)
    /\ hist' = <<>>
    /\ UNCHANGED <<msg, stream, outs>>

DecodeCounted ==
    /\ Len(hist) < MaxCalls
    /\ Decode
    /\ hist' = Append(hist, CallRecord(buf, decode(buf)))
    /\ UNCHANGED <<msg, stream, outs>>

NextCalls == (\E k \in 1..MaxChunk : ArriveCounted(k)) \/ DecodeCounted

SpecCalls == Init /\ [][NextCalls]_vars

----------------------------------------------------------------------------
(* Chunked runs: after each arrival the caller calls decode until it returns
   Ok(None) or an error, and stops for good at an error *)

InitChunk ==
    /\ stream \in Wires
    /\ wire = stream
    /\ buf = <<>>
    /\ result = OkNone
    /\ prev = <<>>
    /\ frame = <<>>
    /\ op = "init"
    /\ msg = <<>>
    /\ outs = <<>>
    /\ hist = <<>>

ArriveChunk(k) ==
    /\ op = "init" \/ (op = "decode" /\ result = OkNone)
    /\ Arrive(k)
    /\ UNCHANGED aux

DecodeChunk ==
    /\ op = "arrive" \/ (op = "decode" /\ result.packet # <<>>)
    /\ Decode
    /\ outs' = IF decode(buf).result = OkNone THEN outs
               ELSE Append(outs, decode(buf).result)
    /\ UNCHANGED <<msg, stream, hist>>

NextChunk == (\E k \in 1..MaxChunk : ArriveChunk(k)) \/ DecodeChunk

SpecChunk == InitChunk /\ [][NextChunk]_vars

\* The same loop with the whole stream s in the buffer before the first call.
RECURSIVE DecodeAll(_)
DecodeAll(s) ==
    LET r == decode(s)
    IN  IF r.result = OkNone THEN <<>>
        ELSE IF r.result.packet # <<>> /\ Len(r.buf) < Len(s)
        THEN <<r.result>> \o DecodeAll(r.buf)
        ELSE <<r.result>>

----------------------------------------------------------------------------
(* Round-trip runs: a packet is encoded, the bytes written are delivered to
   the peer's buffer, and the peer decodes them *)

Messages ==
    { Packet(<<0, 36>>,
             Header(LIBVIRT_PROGRAM, LIBVIRT_PROTO_VERSION, 4, 0, x[1], x[2]),
             PayloadCall(<<XdrU64(x[3])>>)) :
        x \in SerialSamples \X StatusSamples \X U64Samples }
    \cup
    { Packet(<<0, 28>>,
             Header(LIBVIRT_PROGRAM, LIBVIRT_PROTO_VERSION, x[3], 0, x[1], x[2]),
             PayloadCall(<<>>)) :
        x \in SerialSamples \X StatusSamples \X (ProcedureSamples \ {4}) }

InitRT ==
    /\ msg \in { <<m>> : m \in Messages }
    /\ wire = <<>>
    /\ buf = <<>>
    /\ result = OkNone
    /\ prev = <<>>
    /\ frame = <<>>
    /\ op = "init"
    /\ stream = <<>>
    /\ outs = <<>>
    /\ hist = <<>>

\* codec.encode(msg, &mut out), out being what goes on the wire.
Encode ==
    /\ op = "init"
    /\ msg # <<>>
    /\ wire' = encode(msg[1], wire).buf
    /\ op' = "encode"
    /\ UNCHANGED <<buf, result, prev, frame, aux>>

\* The transport hands the peer everything that was written.
Deliver ==
    /\ op = "encode"
    /\ buf' = buf \o wire
    /\ wire' = <<>>
    /\ result' = OkNone
    /\ prev' = <<>>
    /\ frame' = <<>>
    /\ op' = "arrive"
    /\ UNCHANGED aux

DecodeEncoded ==
    /\ op = "arrive"
    /\ Decode
    /\ UNCHANGED aux

NextRT == Encode \/ Deliver \/ DecodeEncoded

SpecRT == InitRT /\ [][NextRT]_vars

----------------------------------------------------------------------------
(* Vocabulary of the properties *)

\* The last operation was a decode call.
Called == op = "decode"

\* The length L the first four bytes of the buffer declare (big-endian).
DeclaredLen(b) == <<b[1] * 256 + b[2], b[3] * 256 + b[4]>>

\* L >= n and L < n for a declared length L and a small number n.
LenAtLeast(L, n) == L[1] > 0 \/ L[2] >= n
LenBelow(L, n) == L[1] = 0 /\ L[2] < n

\* The header fields of a buffer, as the bytes at their places.
ProgramBytes(b) == SubSeq(b, 5, 8)
VersionBytes(b) == SubSeq(b, 9, 12)
ProcedureBytes(b) == SubSeq(b, 13, 16)
TypeBytes(b) == SubSeq(b, 17, 20)

\* The buffer holds all the bytes of a frame that has room for a header:
\* the declared length L is at least 28 and at least L bytes are buffered.
CompleteFrame(b) ==
    /\ Len(b) >= 4
    /\ DeclaredLen(b)[1] = 0
    /\ DeclaredLen(b)[2] >= 28
    /\ Len(b) >= DeclaredLen(b)[2]

ProtocolMatches(b) ==
    /\ ProgramBytes(b) = pack_u32(LIBVIRT_PROGRAM)
    /\ VersionBytes(b) = pack_u32(LIBVIRT_PROTO_VERSION)

\* The last decode call drained a frame and handed it to its reader.
Took == Called /\ frame # <<>>

----------------------------------------------------------------------------
(* C1: a decode call on a buffer of 0, 1, 2 or 3 bytes, whatever they are,
   returns Ok(None) and leaves the buffer as it was. *)
Thm_C1 ==
    (Called /\ Len(prev) < 4) => (result = OkNone /\ buf = prev)

Wit_C1 ==
    Called /\ Len(prev) = 3 /\ prev[1] = 255 /\ result = OkNone /\ buf = prev

----------------------------------------------------------------------------
(* C2 as stated: with a declared length L >= 24 and fewer than 4 + L bytes
   buffered, decode returns Ok(None) and leaves the buffer as it was. *)
Orig_C2 ==
    (/\ Called
     /\ Len(prev) >= 4
     /\ LenAtLeast(DeclaredLen(prev), 24)
     /\ (DeclaredLen(prev)[1] > 0 \/ Len(prev) < 4 + DeclaredLen(prev)[2]))
    => (result = OkNone /\ buf = prev)

(* C2 as amended: with a declared length L >= 24 and fewer than L bytes
   buffered (prefix included), decode returns Ok(None) whatever the bytes
   after the prefix are and leaves the buffer as it was; with exactly L bytes
   buffered it does not return Ok(None). *)
Thm_C2 ==
    (Called /\ Len(prev) >= 4 /\ LenAtLeast(DeclaredLen(prev), 24))
    => /\ (DeclaredLen(prev)[1] > 0 \/ Len(prev) < DeclaredLen(prev)[2])
            => (result = OkNone /\ buf = prev)
       /\ (DeclaredLen(prev)[1] = 0 /\ Len(prev) = DeclaredLen(prev)[2])
            => result # OkNone

Wit_C2 ==
    /\ Called
    /\ Len(prev) = 35
    /\ DeclaredLen(prev) = <<0, 36>>
    /\ result = OkNone
    /\ buf = prev

----------------------------------------------------------------------------
(* C3 as stated: a decode call that takes a frame of declared length L
   removes 4 + L bytes from the front of the buffer, parses the L bytes after
   the prefix and leaves the bytes beyond them in place. *)
Orig_C3 ==
    Took => /\ DeclaredLen(prev)[1] = 0
            /\ Len(prev) >= 4 + DeclaredLen(prev)[2]
            /\ buf = Drop(prev, 4 + DeclaredLen(prev)[2])
            /\ frame[1] = SubSeq(prev, 5, 4 + DeclaredLen(prev)[2])

(* C3 as amended: a decode call that takes a frame of declared length L
   removes exactly L bytes from the front of the buffer (the 4-byte prefix
   and the L - 4 bytes after it), parses exactly those L - 4 bytes, and
   leaves every byte beyond the first L in place and in order. *)
Thm_C3 ==
    Took => /\ DeclaredLen(prev)[1] = 0
            /\ DeclaredLen(prev)[2] >= 4
            /\ Len(prev) >= DeclaredLen(prev)[2]
            /\ Len(prev) - Len(buf) = DeclaredLen(prev)[2]
            /\ buf = Drop(prev, DeclaredLen(prev)[2])
            /\ frame[1] = SubSeq(prev, 5, DeclaredLen(prev)[2])

Wit_C3 ==
    /\ Took
    /\ DeclaredLen(prev) = <<0, 36>>
    /\ Len(prev) = 40
    /\ buf = SubSeq(prev, 37, 40)
    /\ Len(frame[1]) = 32

----------------------------------------------------------------------------
(* C4 as stated: with a declared length 1 <= L < 24 decode returns the
   too-short error however many bytes are buffered, and a length L >= 24 is
   never rejected as too short. *)
Orig_C4 ==
    (Called /\ Len(prev) >= 4)
    => /\ (LenAtLeast(DeclaredLen(prev), 1) /\ LenBelow(DeclaredLen(prev), 24))
            => result = Err(TooShortError)
       /\ LenAtLeast(DeclaredLen(prev), 24) => result # Err(TooShortError)

(* C4 as amended: with a declared length 1 <= L < 28 and at least L bytes
   buffered (as in [0,0,0,4]) decode returns the too-short error; with fewer
   than L bytes buffered it returns Ok(None); it never returns a packet for
   such a length; and a length L >= 28 is never rejected as too short. *)
Thm_C4 ==
    (Called /\ Len(prev) >= 4)
    => /\ (LenAtLeast(DeclaredLen(prev), 1) /\ LenBelow(DeclaredLen(prev), 28))
            => /\ Len(prev) >= DeclaredLen(prev)[2] => result = Err(TooShortError)
               /\ Len(prev) < DeclaredLen(prev)[2] => result = OkNone
               /\ result.packet = <<>>
       /\ LenAtLeast(DeclaredLen(prev), 28) => result # Err(TooShortError)

Wit_C4 ==
    Called /\ prev = <<0, 0, 0, 4>> /\ result = Err(TooShortError)

----------------------------------------------------------------------------
(* C5 as stated: with a declared length of 0 decode returns an error that
   the caller can tell apart from the too-short error. *)
Orig_C5 ==
    (Called /\ Len(prev) >= 4 /\ DeclaredLen(prev) = <<0, 0>>)
    => (result.tag = "Err" /\ result.err # TooShortError)

(* C5 as amended: with a declared length of 0 decode returns an error, and
   it is the very error it returns for every other length below 28. *)
Thm_C5 ==
    (Called /\ Len(prev) >= 4 /\ DeclaredLen(prev) = <<0, 0>>)
    => result = Err(TooShortError)

Wit_C5 ==
    /\ Called
    /\ Len(prev) > 4
    /\ DeclaredLen(prev) = <<0, 0>>
    /\ result.tag = "Err"

----------------------------------------------------------------------------
(* C6 as stated: a decode call that returns an error has removed the
   offending frame's bytes from the front of the buffer (under either count
   of the frame: L bytes, or 4 + L). *)
Orig_C6 ==
    (Called /\ result.tag = "Err")
    => /\ DeclaredLen(prev)[1] = 0
       /\ buf # prev
       /\ \/ buf = Drop(prev, DeclaredLen(prev)[2])
          \/ /\ Len(prev) >= 4 + DeclaredLen(prev)[2]
             /\ buf = Drop(prev, 4 + DeclaredLen(prev)[2])

(* C6 as amended: a decode call that returns an error found while parsing
   the frame (primitive decode failure, unrecognized protocol, unsupported
   message type) has removed the frame's L bytes from the front of the
   buffer; the too-short error (L < 28, zero included) is returned before
   anything is taken and leaves the buffer as it was. *)
Thm_C6 ==
    (Called /\ result.tag = "Err")
    => IF result.err = TooShortError
       THEN /\ LenBelow(DeclaredLen(prev), 28)
            /\ buf = prev
            /\ frame = <<>>
       ELSE /\ result.err \in {XdrEof, InvalidProgramError, TodoError}
            /\ CompleteFrame(prev)
            /\ buf = Drop(prev, DeclaredLen(prev)[2])
            /\ frame # <<>>

Wit_C6 ==
    /\ Called
    /\ result = Err(XdrEof)
    /\ DeclaredLen(prev) = <<0, 32>>
    /\ Len(prev) = 36
    /\ buf = SubSeq(prev, 33, 36)

----------------------------------------------------------------------------
(* C7: for a complete frame with the protocol's program and version, message
   type 0 and a procedure other than 4, decode returns an error (unsupported
   procedure) and consumes the frame; it returns no packet. *)
Orig_C7 ==
    (/\ Called
     /\ CompleteFrame(prev)
     /\ ProtocolMatches(prev)
     /\ TypeBytes(prev) = pack_i32(0)
     /\ ProcedureBytes(prev) # pack_i32(4))
    => /\ result.tag = "Err"
       /\ result.packet = <<>>
       /\ buf = Drop(prev, DeclaredLen(prev)[2])

----------------------------------------------------------------------------
(* C8: for a complete frame of message type 0 whose program or version is
   not the protocol's, decode returns the invalid-program error, no packet,
   and the frame's bytes are gone from the buffer. *)
Thm_C8 ==
    (/\ Called
     /\ CompleteFrame(prev)
     /\ TypeBytes(prev) = pack_i32(0)
     /\ ~ProtocolMatches(prev))
    => /\ result = Err(InvalidProgramError)
       /\ result.packet = <<>>
       /\ buf = Drop(prev, DeclaredLen(prev)[2])

Wit_C8 ==
    /\ Called
    /\ CompleteFrame(prev)
    /\ TypeBytes(prev) = pack_i32(0)
    /\ ProgramBytes(prev) = pack_u32(LIBVIRT_PROGRAM)
    /\ VersionBytes(prev) = pack_u32(<<0, 2>>)
    /\ ProcedureBytes(prev) = pack_i32(4)
    /\ result = Err(InvalidProgramError)
    /\ Len(buf) = 4

----------------------------------------------------------------------------
(* C9: for a complete frame with the protocol's program and version and a
   message type other than 0, decode returns the unsupported-type error: an
   error value, not a panic, not Ok(None), not a packet; and the frame's
   bytes are gone from the buffer. *)
Thm_C9 ==
    (/\ Called
     /\ CompleteFrame(prev)
     /\ ProtocolMatches(prev)
     /\ TypeBytes(prev) # pack_i32(0))
    => /\ result = Err(TodoError)
       /\ buf = Drop(prev, DeclaredLen(prev)[2])

Wit_C9 ==
    /\ Called
    /\ CompleteFrame(prev)
    /\ ProtocolMatches(prev)
    /\ TypeBytes(prev) = pack_i32(-1)
    /\ ProcedureBytes(prev) = pack_i32(4)
    /\ result = Err(TodoError)
    /\ Len(buf) = 4

----------------------------------------------------------------------------
(* C10: for the version-query frame (length 36, the protocol's program and
   version, procedure 4, type 0) with any serial s, status t and value v,
   decode returns the packet with header (program, version, 4, 0, s, t) and
   body Call with the one parameter U64(v). *)
Thm_C10 ==
    \A s \in SerialSamples, t \in StatusSamples, v \in U64Samples :
        (Called /\ IsPrefix(VersionCall(s, t, v), prev))
        => result = OkSome(Packet(<<0, 36>>,
                                  Header(LIBVIRT_PROGRAM, LIBVIRT_PROTO_VERSION,
                                         4, 0, s, t),
                                  PayloadCall(<<XdrU64(v)>>)))

Wit_C10 ==
    /\ Called
    /\ IsPrefix(VersionCall(U32Max, -1, U64Big), prev)
    /\ result.tag = "Ok"
    /\ result.packet # <<>>
    /\ result.packet[1].header.serial = U32Max
    /\ result.packet[1].header.status = -1
    /\ result.packet[1].body.params[1].v = U64Big

----------------------------------------------------------------------------
(* C13 as stated: in every packet decode returns, len is the length the
   prefix declared, is the number of header-plus-body bytes of the frame,
   and is the number of bytes the call removed from the buffer minus 4. *)
Orig_C13 ==
    (Called /\ result.packet # <<>>)
    => /\ result.packet[1].len = DeclaredLen(prev)
       /\ result.packet[1].len[1] = 0
       /\ result.packet[1].len[2] = Len(frame[1])
       /\ result.packet[1].len[2] = Len(prev) - Len(buf) - 4

(* C13 as amended: in every packet decode returns, len is the length the
   prefix declared and is the number of bytes the call removed from the
   buffer, prefix included: the header-plus-body bytes of the frame plus 4. *)
Thm_C13 ==
    (Called /\ result.packet # <<>>)
    => /\ result.packet[1].len = DeclaredLen(prev)
       /\ result.packet[1].len[1] = 0
       /\ result.packet[1].len[2] = Len(frame[1]) + 4
       /\ result.packet[1].len[2] = Len(prev) - Len(buf)

Wit_C13 ==
    /\ Called
    /\ result.packet # <<>>
    /\ result.packet[1].len = <<0, 40>>
    /\ Len(prev) = 44
    /\ Len(buf) = 4
    /\ Len(frame[1]) = 36

----------------------------------------------------------------------------
(* C15 as stated: for a complete frame whose program or version is not the
   protocol's, decode returns the invalid-program error whatever the message
   type is. *)
Orig_C15 ==
    (Called /\ CompleteFrame(prev) /\ ~ProtocolMatches(prev))
    => result = Err(InvalidProgramError)

(* C15 as amended: the message type is matched before the program and the
   version are looked at: for a complete frame whose program or version is
   not the protocol's, decode returns the invalid-program error when the
   message type is 0 and the unsupported-type error for every other type. *)
Thm_C15 ==
    (Called /\ CompleteFrame(prev) /\ ~ProtocolMatches(prev))
    => IF TypeBytes(prev) = pack_i32(0)
       THEN result = Err(InvalidProgramError)
       ELSE result = Err(TodoError)

Wit_C15 ==
    /\ Called
    /\ CompleteFrame(prev)
    /\ ProgramBytes(prev) # pack_u32(LIBVIRT_PROGRAM)
    /\ TypeBytes(prev) = pack_i32(1)
    /\ result = Err(TodoError)

----------------------------------------------------------------------------
(* C16: for a complete version-query frame (the protocol's program and
   version, procedure 4, type 0) with fewer than 8 body bytes, that is a
   declared length below 36, decode returns the decode error, its reader held
   the frame's bytes only, and the frame is gone from the buffer. *)
Thm_C16 ==
    (/\ Called
     /\ CompleteFrame(prev)
     /\ DeclaredLen(prev)[2] < 36
     /\ ProtocolMatches(prev)
     /\ TypeBytes(prev) = pack_i32(0)
     /\ ProcedureBytes(prev) = pack_i32(4))
    => /\ result = Err(XdrEof)
       /\ frame = <<SubSeq(prev, 5, DeclaredLen(prev)[2])>>
       /\ buf = Drop(prev, DeclaredLen(prev)[2])

\* Four body bytes in the frame, and behind it bytes that would complete a value.
Wit_C16 ==
    /\ Called
    /\ Len(prev) >= 40
    /\ DeclaredLen(prev) = <<0, 32>>
    /\ ProtocolMatches(prev)
    /\ TypeBytes(prev) = pack_i32(0)
    /\ ProcedureBytes(prev) = pack_i32(4)
    /\ result = Err(XdrEof)
    /\ Len(buf) = Len(prev) - 32

----------------------------------------------------------------------------
(* C17: whenever decode parses a header, its reader holds at least 24 bytes;
   a decode error therefore comes from the body only: from a version-query
   call of the protocol with fewer than 8 body bytes. *)
Thm_C17 ==
    /\ Took => Len(frame[1]) >= 24
    /\ (Called /\ result = Err(XdrEof))
         => /\ Took
            /\ Len(frame[1]) < 32
            /\ ProtocolMatches(prev)
            /\ TypeBytes(prev) = pack_i32(0)
            /\ ProcedureBytes(prev) = pack_i32(4)

Wit_C17 ==
    /\ Took
    /\ DeclaredLen(prev) = <<0, 28>>
    /\ Len(frame[1]) = 24
    /\ result = Err(XdrEof)

----------------------------------------------------------------------------
(* C18 as stated: after a decode call the buffer is a suffix of the buffer
   before it, and the call removed either nothing or 4 + L bytes, L being
   the declared length. *)
Orig_C18 ==
    Called
    => /\ Len(buf) <= Len(prev)
       /\ buf = Drop(prev, Len(prev) - Len(buf))
       /\ \/ Len(buf) = Len(prev)
          \/ /\ Len(prev) >= 4
             /\ DeclaredLen(prev)[1] = 0
             /\ Len(prev) - Len(buf) = 4 + DeclaredLen(prev)[2]

(* C18 as amended: after a decode call the buffer is a suffix of the buffer
   before it, and the call removed either nothing or exactly L bytes, the
   declared length, which counts the prefix: one whole frame. *)
Thm_C18 ==
    Called
    => /\ Len(buf) <= Len(prev)
       /\ buf = Drop(prev, Len(prev) - Len(buf))
       /\ \/ Len(buf) = Len(prev)
          \/ /\ Len(prev) >= 4
             /\ DeclaredLen(prev)[1] = 0
             /\ Len(prev) - Len(buf) = DeclaredLen(prev)[2]

Wit_C18 ==
    /\ Called
    /\ Len(prev) = 38
    /\ DeclaredLen(prev) = <<0, 36>>
    /\ buf = SubSeq(prev, 37, 38)

----------------------------------------------------------------------------
(* C20: no decode call panics: every call returns Ok(None), Ok(Some(packet))
   or an error. *)
Thm_C20 ==
    Called => /\ result.tag \in {"Ok", "Err"}
              /\ result.tag = "Err" <=> result.err # <<>>
              /\ result.tag = "Err" => result.packet = <<>>

\* The drain takes the whole buffer: len = buf.len().
Wit_C20 ==
    /\ Took
    /\ Len(prev) = 28
    /\ DeclaredLen(prev) = <<0, 28>>
    /\ buf = <<>>
    /\ result.tag = "Err"

----------------------------------------------------------------------------
(* C11: round trip: a packet m is encoded into an empty output buffer, the
   bytes written are decoded, and decode returns a packet equal to m. *)
Orig_C11 ==
    (Called /\ msg # <<>>) => result = OkSome(msg[1])

----------------------------------------------------------------------------
(* C12: when a decode call returns Ok(None), the next call on the same
   buffer, nothing appended in between, returns Ok(None) too, and the buffer
   after both calls is the buffer before the first. *)
Thm_C12 ==
    \A i \in 1..(Len(hist) - 1) :
        hist[i].result = OkNone
        => /\ hist[i + 1].result = OkNone
           /\ hist[i + 1].before = hist[i].before
           /\ hist[i + 1].after = hist[i].before

\* Twice Ok(None) on a frame that lacks its last byte.
Wit_C12 ==
    /\ Len(hist) >= 2
    /\ Len(hist[1].before) = 35
    /\ DeclaredLen(hist[1].before) = <<0, 36>>
    /\ hist[1].result = OkNone
    /\ hist[2].result = OkNone
    /\ buf = hist[1].before

----------------------------------------------------------------------------
(* C14 as stated: every decode call that returns something other than
   Ok(None) strictly shortens the buffer, and no error is returned twice for
   the same unchanged bytes. *)
Orig_C14 ==
    /\ \A i \in 1..Len(hist) :
          hist[i].result # OkNone => Len(hist[i].after) < Len(hist[i].before)
    /\ \A i, j \in 1..Len(hist) :
          (i < j /\ hist[i].result.tag = "Err")
          => ~(hist[j].result = hist[i].result /\ hist[j].before = hist[i].before)

(* C14 as amended: every decode call that returns a packet or an error found
   while parsing a frame shortens the buffer by at least 28 bytes, so a
   caller that keeps calling decode with no further arrivals reaches Ok(None)
   or the too-short error after at most (buffer length / 28) such calls; the
   too-short error leaves the buffer unchanged, and the next call on the
   unchanged bytes returns it again. *)
Thm_C14 ==
    /\ \A i \in 1..Len(hist) :
          hist[i].result # OkNone
          => IF hist[i].result = Err(TooShortError)
             THEN /\ hist[i].after = hist[i].before
                  /\ i < Len(hist) => hist[i + 1].result = Err(TooShortError)
             ELSE Len(hist[i].after) + 28 <= Len(hist[i].before)
    /\ Len(hist) > 0
         => 28 * Cardinality({ i \in 1..Len(hist) :
                                 hist[i].result \notin {OkNone, Err(TooShortError)} })
            <= Len(hist[1].before)

\* A packet is taken, then the too-short frame behind it is refused twice.
Wit_C14 ==
    /\ Len(hist) = 3
    /\ hist[1].result.packet # <<>>
    /\ Len(hist[1].after) + 36 = Len(hist[1].before)
    /\ hist[2].result = Err(TooShortError)
    /\ hist[3].result = Err(TooShortError)
    /\ hist[3].after = <<0, 0, 0, 4>>

----------------------------------------------------------------------------
(* C19: however the stream is split into arrivals, the results other than
   Ok(None) that the chunked caller has had are the first results of the run
   with the whole stream buffered, and all of them once the chunked run has
   ended (at an error, or at Ok(None) with nothing left to arrive). *)
ChunkedDone ==
    /\ op = "decode"
    /\ result.tag # "Ok" \/ (result = OkNone /\ wire = <<>>)

Thm_C19 ==
    /\ IsPrefix(outs, DecodeAll(stream))
    /\ ChunkedDone => outs = DecodeAll(stream)

\* Two packets out of two frames that arrived in pieces.
Wit_C19 ==
    /\ ChunkedDone
    /\ Len(stream) = 72
    /\ Len(outs) = 2
    /\ outs[1].packet # <<>>
    /\ outs[2].packet # <<>>
    /\ outs = DecodeAll(stream)

====
